---- MODULE Spec2Model ----
(***************************************************************************)
(* Loan calculator (src/script.js): the numeric functions calculateEMI,    *)
(* calculateTotalInterest, calculateMonthsToClose, generateReportTable and *)
(* the handlers that call them and keep the window.tab*Data records.       *)
(*                                                                         *)
(* A JavaScript Number is an IEEE-754 binary64 value.  It is modelled as a *)
(* binary floating-point value of the same shape at a reduced width: PREC  *)
(* significand bits instead of 53, magnitudes below 2^EMax instead of      *)
(* 2^1024, smallest quantum 2^EMinQ instead of 2^-1074, round to nearest   *)
(* ties to even, gradual underflow, +-Infinity and NaN.  The sign of zero  *)
(* is not modelled.  A value is the record [k, s, m, e]: kind, sign,       *)
(* odd significand (0 for zero) and exponent, value = s * m * 2^e.         *)
(*                                                                         *)
(* What the reduced width does to a loan of 1000 at a monthly rate of 1/8  *)
(* the full width does to a loan of 10^15 at a monthly rate of 10^-13:     *)
(* the rates used below are the ones whose monthly rate is a short binary  *)
(* fraction (75%, 150% a year), so that 1 + monthlyRate is exact, as it    *)
(* nearly is at the full width for the rates of a real loan.               *)
(*                                                                         *)
(* Values that the program computes once and uses several times are passed *)
(* as operator arguments, so a definition stands for a part of a function  *)
(* of the program rather than for the whole of it.                         *)
(***************************************************************************)
EXTENDS Integers, Sequences, FiniteSets, TLC

PREC == 12
EMax == 24
EMinQ == 0 - EMax

Max2(a, b) == IF a >= b THEN a ELSE b
AbsI(n) == IF n >= 0 THEN n ELSE 0 - n
SgnI(n) == IF n >= 0 THEN 1 ELSE -1

Zero == [k |-> "fin", s |-> 1, m |-> 0, e |-> 0]
One == [k |-> "fin", s |-> 1, m |-> 1, e |-> 0]
Two == [k |-> "fin", s |-> 1, m |-> 1, e |-> 1]
C12 == [k |-> "fin", s |-> 1, m |-> 3, e |-> 2]
C100 == [k |-> "fin", s |-> 1, m |-> 25, e |-> 2]
NaN == [k |-> "nan", s |-> 1, m |-> 0, e |-> 0]
Inf(s) == [k |-> "inf", s |-> s, m |-> 0, e |-> 0]
Fin(s, me) == [k |-> "fin", s |-> s, m |-> me[1], e |-> me[2]]

\* the number of bits of n, 0 <= n < 2^31, found by halving the range
BitUp(p, w) == IF p[1] >= 2 ^ w THEN <<p[1] \div (2 ^ w), p[2] + w>> ELSE p
BitSum(p) == p[1] + p[2]
BitLen(n) == BitSum(BitUp(BitUp(BitUp(BitUp(BitUp(<<n, 0>>, 16), 8), 4), 2), 1))

\* canonical form: the significand is odd
Strip(me, w) == IF me[1] % (2 ^ w) = 0 THEN <<me[1] \div (2 ^ w), me[2] + w>> ELSE me
Canon(me) == Strip(Strip(Strip(Strip(Strip(me, 16), 8), 4), 2), 1)

\* the magnitude m * 2^e has reached 2^EMax
Overflows(me) == me[2] >= EMax \/ (EMax - me[2] <= 30 /\ me[1] >= 2 ^ (EMax - me[2]))

Finish(s, me) ==
    IF me[1] = 0 THEN Zero
    ELSE IF Overflows(me) THEN Inf(s)
    ELSE Fin(s, Canon(me))

\* nearest, ties to even: q the kept bits, r the dropped bits, half their midpoint
RoundQ(q, r, half, sticky, E) ==
    <<IF r > half \/ (r = half /\ (sticky \/ q % 2 = 1)) THEN q + 1 ELSE q, E>>

RoundAt(M, E, sticky, L, sh) ==
    IF sh <= 0 THEN <<M, E>>
    ELSE IF sh > L + 1 THEN <<0, 0>>
    ELSE RoundQ(M \div (2 ^ sh), M % (2 ^ sh), 2 ^ (sh - 1), sticky, E + sh)

RoundLen(p, M, E, sticky, L) == RoundAt(M, E, sticky, L, Max2(L - p, EMinQ - E))

\* round the exact magnitude M * 2^E (plus a nonzero fraction of 2^E when
\* sticky) to p significand bits
RoundTo(p, s, M, E, sticky) ==
    IF M = 0 THEN Zero ELSE Finish(s, RoundLen(p, M, E, sticky, BitLen(M)))

Round(s, M, E, sticky) == RoundTo(PREC, s, M, E, sticky)

\* an integer literal, or a counter used as an operand
FromInt(n) == Round(SgnI(n), AbsI(n), 0, FALSE)

\* the exact sum of two finite nonzero values as <<signed M, E, sticky>>: hi
\* has the larger exponent, d is the distance, k the guard bits kept below hi
SumAt(hi, lo, d, k, lenLo) ==
    IF d >= lenLo + k
    THEN \* lo lies below the rounding position of hi: it only decides ties
         <<hi.s * (hi.m * (2 ^ k) - (IF hi.s = lo.s THEN 0 ELSE 1)), hi.e - k, TRUE>>
    ELSE <<hi.s * hi.m * (2 ^ d) + lo.s * lo.m, lo.e, FALSE>>

SumHiLo(hi, lo) == SumAt(hi, lo, hi.e - lo.e, PREC + 2 - BitLen(hi.m), BitLen(lo.m))

ExactSum(a, b) ==
    IF a.m = 0 THEN <<b.s * b.m, b.e, FALSE>>
    ELSE IF b.m = 0 THEN <<a.s * a.m, a.e, FALSE>>
    ELSE SumHiLo(IF a.e >= b.e THEN a ELSE b, IF a.e >= b.e THEN b ELSE a)

RoundSum(t) == Round(SgnI(t[1]), AbsI(t[1]), t[2], t[3])

Neg(a) == IF a.k = "nan" \/ (a.k = "fin" /\ a.m = 0) THEN a ELSE [a EXCEPT !.s = 0 - a.s]

\* a + b
Add(a, b) ==
    IF a.k = "nan" \/ b.k = "nan" THEN NaN
    ELSE IF a.k = "inf" /\ b.k = "inf" THEN (IF a.s = b.s THEN a ELSE NaN)
    ELSE IF a.k = "inf" THEN a
    ELSE IF b.k = "inf" THEN b
    ELSE RoundSum(ExactSum(a, b))

\* a - b
Sub(a, b) == Add(a, Neg(b))

\* a * b
Mul(a, b) ==
    IF a.k = "nan" \/ b.k = "nan" THEN NaN
    ELSE IF a.k = "inf" \/ b.k = "inf"
         THEN (IF (a.k = "fin" /\ a.m = 0) \/ (b.k = "fin" /\ b.m = 0)
               THEN NaN ELSE Inf(a.s * b.s))
    ELSE Round(a.s * b.s, a.m * b.m, a.e + b.e, FALSE)

\* the quotient of two finite nonzero values, num = a.m * 2^k
Quotient(a, b, k, num) == Round(a.s * b.s, num \div b.m, a.e - b.e - k, num % b.m # 0)
QuotientAt(a, b, k) == Quotient(a, b, k, a.m * (2 ^ k))

\* a / b
Div(a, b) ==
    IF a.k = "nan" \/ b.k = "nan" THEN NaN
    ELSE IF a.k = "inf" THEN (IF b.k = "inf" THEN NaN ELSE Inf(a.s * b.s))
    ELSE IF b.k = "inf" THEN Zero
    ELSE IF b.m = 0 THEN (IF a.m = 0 THEN NaN ELSE Inf(a.s))
    ELSE IF a.m = 0 THEN Zero
    ELSE QuotientAt(a, b, PREC + 2 + BitLen(b.m) - BitLen(a.m))

\* the sign of the exact a - b as -1, 0, 1, neither being NaN
SignOf(t) == IF t[1] > 0 THEN 1 ELSE IF t[1] < 0 THEN -1 ELSE 0
Compare(a, b) ==
    IF a = b THEN 0
    ELSE IF a.k = "inf" THEN a.s
    ELSE IF b.k = "inf" THEN 0 - b.s
    ELSE SignOf(ExactSum(a, Neg(b)))

\* the relational operators; every comparison with NaN is false
Lt(a, b) == a.k # "nan" /\ b.k # "nan" /\ Compare(a, b) < 0
Le(a, b) == a.k # "nan" /\ b.k # "nan" /\ Compare(a, b) <= 0
Gt(a, b) == a.k # "nan" /\ b.k # "nan" /\ Compare(a, b) > 0
Ge(a, b) == a.k # "nan" /\ b.k # "nan" /\ Compare(a, b) >= 0
\* a === b
Eq(a, b) == a.k # "nan" /\ a = b

isFinite(a) == a.k = "fin"
isNaN(a) == a.k = "nan"

\* the whole part of the magnitude of a finite value
FloorMag(a) ==
    IF a.m = 0 THEN 0
    ELSE IF a.e >= 0 THEN a.m * (2 ^ a.e)
    ELSE IF BitLen(a.m) + a.e <= 0 THEN 0
    ELSE a.m \div (2 ^ (0 - a.e))

isInteger(a) == a.k = "fin" /\ a.e >= 0

\* Math.ceil
Ceil(a) ==
    IF a.k # "fin" \/ a.e >= 0 THEN a
    ELSE FromInt(IF a.s = 1 THEN FloorMag(a) + 1 ELSE 0 - FloorMag(a))

\* Math.max(0, a)
Max0(a) == IF a.k = "nan" THEN NaN ELSE IF a.s = -1 THEN Zero ELSE a

\* Math.round of a value with a fraction: halves go towards +Infinity
RoundHalfUp(s, whole, frac2, unit) ==
    IF s = 1 THEN (IF frac2 >= unit THEN whole + 1 ELSE whole)
    ELSE 0 - (IF frac2 > unit THEN whole + 1 ELSE whole)

RoundUnits(a, unit) == FromInt(RoundHalfUp(a.s, a.m \div unit, 2 * (a.m % unit), unit))

\* Math.round
MathRound(a) ==
    IF a.k # "fin" \/ a.e >= 0 THEN a
    ELSE IF BitLen(a.m) + a.e < 0 THEN Zero
    ELSE RoundUnits(a, 2 ^ (0 - a.e))

(***************************************************************************)
(* Math.pow is implementation-approximated.  It is computed here by        *)
(* repeated squaring on a truncated 2*XL-bit intermediate [hi, lo, e, st]  *)
(* = (hi * 2^XL + lo) * 2^e, st recording that bits were dropped, and a    *)
(* final rounding to PREC bits; the fractional part f of the exponent      *)
(* contributes the factor 1 + f*d + f*(f-1)/2*d^2, d = base - 1.  The      *)
(* program only raises bases >= 1 to exponents >= 0.                       *)
(***************************************************************************)
XL == 14

MkX(M, e, st) == [hi |-> M \div (2 ^ XL), lo |-> M % (2 ^ XL), e |-> e, st |-> st]

ShiftX(a, sh) == MkX(a.m * (2 ^ sh), a.e - sh, FALSE)
ToX(a) == ShiftX(a, 2 * XL - BitLen(a.m))

\* top: the product without its low 2*XL bits but for the XL bits of rest
MulNorm(e0, drop, top, rest) ==
    IF top >= 2 ^ (2 * XL - 1) THEN MkX(top, e0, drop \/ rest # 0)
    ELSE MkX(top * 2 + rest \div (2 ^ (XL - 1)), e0 - 1, drop \/ rest % (2 ^ (XL - 1)) # 0)

MulSum(e0, drop, phh, t) == MulNorm(e0, drop, phh + t \div (2 ^ XL), t % (2 ^ XL))

MulParts(e0, st, phh, phl, pll) ==
    MulSum(e0, st \/ pll % (2 ^ XL) # 0, phh, phl + pll \div (2 ^ XL))

MulX(A, B) ==
    MulParts(A.e + B.e + 2 * XL, A.st \/ B.st,
             A.hi * B.hi, A.hi * B.lo + A.lo * B.hi, A.lo * B.lo)

SquareX(A) == MulX(A, A)

\* one binary digit of the exponent: the square, times X when the digit is 1
PowBit(sq, X, bit) == IF bit = 1 THEN MulX(sq, X) ELSE sq

\* X^n by squaring, from the leading binary digit of n down; acc is X raised
\* to the digits above the lowest w, and is normalised, so acc.hi > 0
RECURSIVE PowX(_, _, _, _)
PowX(acc, X, n, w) ==
    IF w = 0 \/ acc.hi = 0 THEN acc
    ELSE PowX(PowBit(SquareX(acc), X, (n \div (2 ^ (w - 1))) % 2), X, n, w - 1)

PowN(base, n) ==
    IF n = 0 THEN ToX(One) ELSE PowX(ToX(base), ToX(base), n, BitLen(n) - 1)

FromX(A) == RoundTo(PREC, 1, A.hi * (2 ^ XL) + A.lo, A.e, A.st)

FracFactor(f, d, fd) == Add(Add(One, fd), Div(Mul(Mul(fd, Sub(f, One)), d), Two))

PowFrac(base, n, f, d) ==
    FromX(MulX(PowN(base, n), ToX(IF f = Zero THEN One ELSE FracFactor(f, d, Mul(f, d)))))

PowSplit(base, exponent, n) == PowFrac(base, n, Sub(exponent, FromInt(n)), Sub(base, One))

\* Math.pow(base, exponent)
Pow(base, exponent) ==
    IF exponent.k = "nan" THEN NaN
    ELSE IF exponent.k = "fin" /\ exponent.m = 0 THEN One
    ELSE IF base.k = "nan" THEN NaN
    ELSE IF exponent.k = "inf"
         THEN (IF base = One THEN NaN ELSE IF exponent.s = 1 THEN Inf(1) ELSE Zero)
    ELSE IF base.k = "inf" THEN Inf(1)
    ELSE IF base = One THEN One
    ELSE IF base.s = -1 \/ Lt(base, One) \/ exponent.s = -1 THEN NaN
    ELSE PowSplit(base, exponent, FloorMag(exponent))

\* calculateEMI: the formula branch, pr = principal * monthlyRate and
\* pw = Math.pow(1 + monthlyRate, numberOfMonths)
\* calculateEMI without its numeric guard
Unguarded(emi) == emi
FiniteOrZero(emi) == IF isFinite(emi) THEN emi ELSE Zero
\* the formula with the denominator (1+r)^n instead of (1+r)^n - 1
EmiFormulaNoMinusOne(pr, pw) == FiniteOrZero(Div(Mul(pr, pw), pw))
EmiFormula(pr, pw) == FiniteOrZero(Div(Mul(pr, pw), Sub(pw, One)))

EmiOf(principal, monthlyRate, numberOfMonths) ==
    IF Eq(monthlyRate, Zero) THEN Div(principal, numberOfMonths)
    ELSE EmiFormula(Mul(principal, monthlyRate), Pow(Add(One, monthlyRate), numberOfMonths))

\* annualRate / 100 / 12
MonthlyRate(annualRate) == Div(Div(annualRate, C100), C12)

\* calculateEMI(principal, annualRate, years)
calculateEMI(principal, annualRate, years) ==
    IF Le(principal, Zero) \/ Lt(annualRate, Zero) \/ Le(years, Zero) THEN Zero
    ELSE EmiOf(principal, MonthlyRate(annualRate), Mul(years, C12))

\* calculateTotalInterest(principal, emi, years)
calculateTotalInterest(principal, emi, years) ==
    Sub(Mul(Mul(emi, years), C12), principal)

\* calculateSIPReturns: monthlyAmount * (((pow - 1) / monthlyRate) * (1 + monthlyRate))
SipFormula(monthlyAmount, monthlyRate, growth, pw) ==
    Mul(monthlyAmount, Mul(Div(Sub(pw, One), monthlyRate), growth))

SipGrowth(monthlyAmount, monthlyRate, months, growth) ==
    SipFormula(monthlyAmount, monthlyRate, growth, Pow(growth, months))

SipOf(monthlyAmount, monthlyRate, months) ==
    IF Eq(monthlyRate, Zero) THEN Mul(monthlyAmount, months)
    ELSE SipGrowth(monthlyAmount, monthlyRate, months, Add(One, monthlyRate))

\* calculateSIPReturns(monthlyAmount, annualRate, months)
calculateSIPReturns(monthlyAmount, annualRate, months) ==
    SipOf(monthlyAmount, MonthlyRate(annualRate), months)

\* the cap of the loop of calculateMonthsToClose
MaxMonths == 600

\* A loop of the program is run in blocks of Chunk steps, so that the depth
\* of the evaluation stays small; the steps taken are those of the loop.
Chunk == 32

\* the body of the while loop of calculateMonthsToClose, next the new value
\* of remaining; done once the function has returned
MonthsBody(st, next) ==
    [remaining |-> next, months |-> st.months + 1, done |-> Le(next, Zero)]

\* the loop with the interest of the month left out of the balance
MonthsStepNoInterest(st, monthlyRate, emi) ==
    IF st.done THEN st
    ELSE IF Gt(st.remaining, Zero) /\ st.months < MaxMonths
    THEN MonthsBody(st, Sub(st.remaining, emi))
    ELSE [st EXCEPT !.done = TRUE]

\* the loop with the cap tested after the month is counted
MonthsStepLateCap(st, monthlyRate, emi) ==
    IF st.done THEN st
    ELSE IF Gt(st.remaining, Zero) /\ st.months <= MaxMonths
    THEN MonthsBody(st, Sub(Add(st.remaining, Mul(st.remaining, monthlyRate)), emi))
    ELSE [st EXCEPT !.done = TRUE]

\* one test of the loop condition and one pass through the body
MonthsStep(st, monthlyRate, emi) ==
    IF st.done THEN st
    ELSE IF Gt(st.remaining, Zero) /\ st.months < MaxMonths
    THEN MonthsBody(st, Sub(Add(st.remaining, Mul(st.remaining, monthlyRate)), emi))
    ELSE [st EXCEPT !.done = TRUE]

RECURSIVE MonthsRun(_, _, _, _)
MonthsRun(st, n, monthlyRate, emi) ==
    IF n = 0 \/ st.done THEN st
    ELSE MonthsRun(MonthsStep(st, monthlyRate, emi), n - 1, monthlyRate, emi)

RECURSIVE MonthsBlocks(_, _, _)
MonthsBlocks(st, monthlyRate, emi) ==
    IF st.done THEN st
    ELSE MonthsBlocks(MonthsRun(st, Chunk, monthlyRate, emi), monthlyRate, emi)

\* the value of months when the loop is left
MonthsLoop(principal, monthlyRate, emi) ==
    MonthsBlocks([remaining |-> principal, months |-> 0, done |-> FALSE], monthlyRate, emi).months

\* calculateMonthsToClose with emi < principal * monthlyRate as its test
calculateMonthsToCloseStrict(principal, monthlyRate, emi) ==
    IF Le(emi, Zero) \/ Le(principal, Zero) THEN Zero
    ELSE IF Eq(monthlyRate, Zero) THEN Ceil(Div(principal, emi))
    ELSE IF Lt(emi, Mul(principal, monthlyRate)) THEN Inf(1)
    ELSE FromInt(MonthsLoop(principal, monthlyRate, emi))

\* calculateMonthsToClose with Math.floor in the place of Math.ceil
calculateMonthsToCloseFloor(principal, monthlyRate, emi) ==
    IF Le(emi, Zero) \/ Le(principal, Zero) THEN Zero
    ELSE IF Eq(monthlyRate, Zero) THEN FromInt(FloorMag(Div(principal, emi)))
    ELSE IF Le(emi, Mul(principal, monthlyRate)) THEN Inf(1)
    ELSE FromInt(MonthsLoop(principal, monthlyRate, emi))

\* calculateMonthsToClose(principal, monthlyRate, emi)
calculateMonthsToClose(principal, monthlyRate, emi) ==
    IF Le(emi, Zero) \/ Le(principal, Zero) THEN Zero
    ELSE IF Eq(monthlyRate, Zero) THEN Ceil(Div(principal, emi))
    ELSE IF Le(emi, Mul(principal, monthlyRate)) THEN Inf(1)
    ELSE FromInt(MonthsLoop(principal, monthlyRate, emi))

\* the body of the for loop of calculateRemainingLoan, next the new value of
\* remaining; closed once the function has returned 0 from inside the loop
RemainingBody(st, next) ==
    [remaining |-> next, i |-> st.i + 1, closed |-> Le(next, Zero), done |-> Le(next, Zero)]

\* one test of i < months and one pass through the body
RemainingStep(st, monthlyRate, emi, months) ==
    IF st.done THEN st
    ELSE IF Lt(FromInt(st.i), months)
    THEN RemainingBody(st, Sub(Add(st.remaining, Mul(st.remaining, monthlyRate)), emi))
    ELSE [st EXCEPT !.done = TRUE]

RECURSIVE RemainingRun(_, _, _, _, _)
RemainingRun(st, n, monthlyRate, emi, months) ==
    IF n = 0 \/ st.done THEN st
    ELSE RemainingRun(RemainingStep(st, monthlyRate, emi, months), n - 1,
                      monthlyRate, emi, months)

RECURSIVE RemainingBlocks(_, _, _, _)
RemainingBlocks(st, monthlyRate, emi, months) ==
    IF st.done THEN st
    ELSE RemainingBlocks(RemainingRun(st, Chunk, monthlyRate, emi, months),
                         monthlyRate, emi, months)

\* what is returned once the loop is left
RemainingReturn(st) == IF st.closed THEN Zero ELSE Max0(st.remaining)

\* calculateRemainingLoan(principal, monthlyRate, emi, months), months finite
calculateRemainingLoan(principal, monthlyRate, emi, months) ==
    IF Eq(monthlyRate, Zero) THEN Max0(Sub(principal, Mul(emi, months)))
    ELSE RemainingReturn(RemainingBlocks([remaining |-> principal, i |-> 0,
                                          closed |-> FALSE, done |-> FALSE],
                                         monthlyRate, emi, months))

\* formatCurrency(amount): the rupee sign and the digits of Math.round(amount);
\* the text is determined by, and determines, that rounded number
formatCurrency(amount) == MathRound(amount)

\* the number of tenths nearest to a finite nonzero x with a fraction
Tenths(x, unit) == x.s * RoundHalfUp(1, (10 * x.m) \div unit, 2 * ((10 * x.m) % unit), unit)

\* x.toFixed(1): the text of the number of tenths nearest to x, or the text
\* of Infinity or NaN
toFixed1(x) ==
    IF x.k = "nan" THEN [k |-> "NaN", tenths |-> 0]
    ELSE IF x.k = "inf" THEN [k |-> "Infinity", tenths |-> x.s]
    ELSE IF x.m = 0 THEN [k |-> "num", tenths |-> 0]
    ELSE IF x.e >= 0 THEN [k |-> "num", tenths |-> x.s * 10 * x.m * (2 ^ x.e)]
    ELSE IF BitLen(x.m) + x.e < -4 THEN [k |-> "num", tenths |-> 0]
    ELSE [k |-> "num", tenths |-> Tenths(x, 2 ^ (0 - x.e))]

\* the end of the body of the for loop of generateReportTable: the new
\* remainingPrincipal, the sums, and the row added to tableHTML
ReportRow(st, interestPayment, principalPayment, remainingPrincipal) ==
    [month |-> st.month + 1,
     remainingPrincipal |-> remainingPrincipal,
     totalInterestPaid |-> Add(st.totalInterestPaid, interestPayment),
     totalPrincipalPaid |-> Add(st.totalPrincipalPaid, principalPayment),
     rows |-> Append(st.rows,
                [previousRemaining |-> st.remainingPrincipal,
                 interestPayment |-> interestPayment,
                 principalPayment |-> principalPayment,
                 remainingPrincipal |-> remainingPrincipal,
                 remainingShown |-> formatCurrency(remainingPrincipal)])]

ReportPay(st, interestPayment, principalPayment) ==
    ReportRow(st, interestPayment, principalPayment,
              Max0(Sub(st.remainingPrincipal, principalPayment)))

ReportInterest(st, emi, interestPayment, last) ==
    ReportPay(st, interestPayment,
              IF last THEN st.remainingPrincipal ELSE Sub(emi, interestPayment))

\* one pass through the body of the for loop, last: month === totalMonths
ReportStep(st, emi, monthlyRate, last) ==
    ReportInterest(st, emi, Mul(st.remainingPrincipal, monthlyRate), last)

RECURSIVE ReportRun(_, _, _, _, _, _)
ReportRun(st, n, emi, monthlyRate, count, lastMonth) ==
    IF n = 0 \/ st.month > count THEN st
    ELSE ReportRun(ReportStep(st, emi, monthlyRate, st.month = lastMonth),
                   n - 1, emi, monthlyRate, count, lastMonth)

RECURSIVE ReportBlocks(_, _, _, _, _)
ReportBlocks(st, emi, monthlyRate, count, lastMonth) ==
    IF st.month > count THEN st
    ELSE ReportBlocks(ReportRun(st, Chunk, emi, monthlyRate, count, lastMonth),
                      emi, monthlyRate, count, lastMonth)

\* the for loop: count the number of months with month <= totalMonths,
\* lastMonth the month with month === totalMonths, 0 when there is none
ReportLoop(principal, emi, monthlyRate, count, lastMonth) ==
    ReportBlocks([month |-> 1, remainingPrincipal |-> principal,
                  totalInterestPaid |-> Zero, totalPrincipalPaid |-> Zero, rows |-> <<>>],
                 emi, monthlyRate, count, lastMonth).rows

ReportCount(totalMonths) ==
    IF totalMonths.k = "fin" /\ totalMonths.s = 1 THEN FloorMag(totalMonths) ELSE 0

\* generateReportTable(principal, emi, monthlyRate, totalMonths): the rows
\* written to reportTableBody, each with the values of the loop variables it
\* was made from; hang when month <= totalMonths never becomes false
generateReportTable(principal, emi, monthlyRate, totalMonths) ==
    IF totalMonths.k = "inf" /\ totalMonths.s = 1
    THEN [hang |-> TRUE, emi |-> emi, monthlyRate |-> monthlyRate,
          totalMonths |-> totalMonths, rows |-> <<>>]
    ELSE [hang |-> FALSE, emi |-> emi, monthlyRate |-> monthlyRate,
          totalMonths |-> totalMonths,
          rows |-> ReportLoop(principal, emi, monthlyRate, ReportCount(totalMonths),
                              IF isInteger(totalMonths) THEN ReportCount(totalMonths) ELSE 0)]

(***************************************************************************)
(* The page: the window.tab*Data records and what the result sections of   *)
(* tabs 1, 2 and 3 show.  A record that has not been stored, or a section  *)
(* that is not shown, is None.  args and ret are the arguments and the     *)
(* result of a direct call of one of the numeric functions.                *)
(***************************************************************************)
VARIABLES tab1Data, tab1Results, emiTable, bestOptionTab1,
          tab2Data, tab2Results, tab2ReportData, additionalResults, report,
          tab4Data, tab4Results, sipTable, bestOptionTab4, existingResults,
          args, ret

vars == <<tab1Data, tab1Results, emiTable, bestOptionTab1,
          tab2Data, tab2Results, tab2ReportData, additionalResults, report,
          tab4Data, tab4Results, sipTable, bestOptionTab4, existingResults,
          args, ret>>
page == <<tab1Data, tab1Results, emiTable, bestOptionTab1,
          tab2Data, tab2Results, tab2ReportData, additionalResults, report,
          tab4Data, tab4Results, sipTable, bestOptionTab4, existingResults>>
tab1 == <<tab1Data, tab1Results, emiTable, bestOptionTab1>>
tab4 == <<tab4Data, tab4Results, sipTable, bestOptionTab4, existingResults>>

None == [set |-> FALSE]
\* no direct call of a numeric function has been set up, or made
NoArgs == [kind |-> "none"]
NoCall == [fn |-> "none"]

\* parseFloat(value) || 0
OrZero(x) == IF x.k = "nan" THEN Zero ELSE x

\* Math.abs
Abs(a) == IF a.k = "nan" THEN a ELSE [a EXCEPT !.s = 1]

\* durations = [5, 10, 15, 20, 25], totalYears pushed when not included,
\* sorted with (a, b) => a - b
RECURSIVE Insert(_, _)
Insert(seq, x) ==
    IF seq = <<>> THEN <<x>>
    ELSE IF Eq(Head(seq), x) THEN seq
    ELSE IF Lt(x, Head(seq)) THEN <<x>> \o seq
    ELSE <<Head(seq)>> \o Insert(Tail(seq), x)

Durations(totalYears) ==
    Insert(<<FromInt(5), FromInt(10), FromInt(15), FromInt(20), FromInt(25)>>, totalYears)

\* the body of durations.forEach in calculateTab1 for a duration <= totalYears:
\* the row added to tableHTML, with the arguments of its Report button, and
\* the new bestOption and minInterest
Tab1Best(acc, row, isBest) ==
    [rows |-> Append(acc.rows, [row EXCEPT !.isBest = isBest]),
     bestOption |-> IF isBest THEN row ELSE acc.bestOption,
     minInterest |-> IF isBest THEN row.interest ELSE acc.minInterest]

\* a comparison that lets the last of several equal candidates win
Tab1InterestLastSeen(acc, principal, annualRate, totalYears, duration, durationEMI, durationInterest) ==
    Tab1Best(acc,
             [set |-> TRUE, duration |-> duration, emi |-> durationEMI,
              interest |-> durationInterest, total |-> Add(principal, durationInterest),
              reportArgs |-> <<principal, annualRate, duration>>,
              isSelected |-> Eq(duration, totalYears), isBest |-> FALSE],
             Le(durationInterest, acc.minInterest))

Tab1Interest(acc, principal, annualRate, totalYears, duration, durationEMI, durationInterest) ==
    Tab1Best(acc,
             [set |-> TRUE, duration |-> duration, emi |-> durationEMI,
              interest |-> durationInterest, total |-> Add(principal, durationInterest),
              reportArgs |-> <<principal, annualRate, duration>>,
              isSelected |-> Eq(duration, totalYears), isBest |-> FALSE],
             Lt(durationInterest, acc.minInterest))

Tab1EMI(acc, principal, annualRate, totalYears, duration, durationEMI) ==
    Tab1Interest(acc, principal, annualRate, totalYears, duration, durationEMI,
                 calculateTotalInterest(principal, durationEMI, duration))

Tab1Row(acc, principal, annualRate, totalYears, duration) ==
    IF Le(duration, totalYears)
    THEN Tab1EMI(acc, principal, annualRate, totalYears, duration,
                 calculateEMI(principal, annualRate, duration))
    ELSE acc

\* durations.forEach; minInterest, assigned only where a comparison held, is
\* never NaN
RECURSIVE Tab1Rows(_, _, _, _, _)
Tab1Rows(acc, principal, annualRate, totalYears, durations) ==
    IF durations = <<>> \/ isNaN(acc.minInterest) THEN acc
    ELSE Tab1Rows(Tab1Row(acc, principal, annualRate, totalYears, Head(durations)),
                  principal, annualRate, totalYears, Tail(durations))

\* the comparison of calculateTab1
Tab1Compare(principal, annualRate, totalYears) ==
    Tab1Rows([rows |-> <<>>, bestOption |-> None, minInterest |-> Inf(1)],
             principal, annualRate, totalYears, Durations(totalYears))

\* the recommendation written to bestOptionTab1
Tab1Recommend(best, savingsVsSelected) ==
    [set |-> TRUE, duration |-> best.duration, emi |-> formatCurrency(best.emi),
     interest |-> formatCurrency(best.interest),
     savings |-> formatCurrency(Abs(savingsVsSelected))]

\* the breakdown written to emiValue, avgPrincipal and avgInterest
Tab1Breakdown(emi, avgInterestPerMonth) ==
    [set |-> TRUE, emiValue |-> formatCurrency(emi),
     avgPrincipal |-> formatCurrency(Sub(emi, avgInterestPerMonth)),
     avgInterest |-> formatCurrency(avgInterestPerMonth)]

\* what calculateTab1 writes once the comparison cmp is made
Tab1Show(principal, annualRate, totalYears, emi, totalInterest, cmp) ==
    /\ tab1Results' = Tab1Breakdown(emi, Div(totalInterest, Mul(totalYears, C12)))
    /\ emiTable' = cmp.rows
    /\ bestOptionTab1' =
         IF cmp.bestOption.set
         THEN Tab1Recommend(cmp.bestOption,
                  Sub(cmp.minInterest, Sub(Mul(Mul(emi, totalYears), C12), principal)))
         ELSE bestOptionTab1
    /\ tab1Data' = [set |-> TRUE, principal |-> principal, annualRate |-> annualRate,
                    emi |-> emi, years |-> totalYears]
    /\ UNCHANGED <<tab2Data, tab2Results, tab2ReportData, additionalResults, report, tab4>>

Tab1Compute(principal, annualRate, totalYears, emi) ==
    Tab1Show(principal, annualRate, totalYears, emi,
             calculateTotalInterest(principal, emi, totalYears),
             Tab1Compare(principal, annualRate, totalYears))

Tab1Duration(principal, annualRate, totalYears) ==
    IF Le(totalYears, Zero) THEN UNCHANGED page
    ELSE Tab1Compute(principal, annualRate, totalYears,
                     calculateEMI(principal, annualRate, totalYears))

\* calculateTab1(), the four fields holding text that parses to the arguments
calculateTab1(principal, interest, yearsField, monthsField) ==
    IF isNaN(principal) \/ isNaN(interest) \/ Le(principal, Zero) \/ Lt(interest, Zero)
    THEN UNCHANGED page
    ELSE Tab1Duration(principal, interest,
                      Add(OrZero(yearsField), Div(OrZero(monthsField), C12)))

\* a calculateTab2 that also forgets the data of the last additional payment
Tab2ShowForgetsReport(principal, interest, monthlyRate, emi, monthsToComplete) ==
    /\ tab2Data' = [set |-> TRUE, principal |-> principal, interest |-> interest,
                    monthlyRate |-> monthlyRate, currentEmi |-> emi,
                    monthsToComplete |-> monthsToComplete,
                    yearsToComplete |-> toFixed1(Div(monthsToComplete, C12)),
                    totalInterest |-> Sub(Mul(emi, monthsToComplete), principal)]
    /\ tab2Results' = [set |-> TRUE, currentEmiDisplay |-> formatCurrency(emi),
                       yearsToComplete |-> toFixed1(Div(monthsToComplete, C12))]
    /\ additionalResults' = None
    /\ tab2ReportData' = None
    /\ UNCHANGED <<tab1, report, tab4>>

\* what calculateTab2 stores and shows once monthsToComplete is known;
\* additionalResults is hidden
Tab2Show(principal, interest, monthlyRate, emi, monthsToComplete) ==
    /\ tab2Data' = [set |-> TRUE, principal |-> principal, interest |-> interest,
                    monthlyRate |-> monthlyRate, currentEmi |-> emi,
                    monthsToComplete |-> monthsToComplete,
                    yearsToComplete |-> toFixed1(Div(monthsToComplete, C12)),
                    totalInterest |-> Sub(Mul(emi, monthsToComplete), principal)]
    /\ tab2Results' = [set |-> TRUE, currentEmiDisplay |-> formatCurrency(emi),
                       yearsToComplete |-> toFixed1(Div(monthsToComplete, C12))]
    /\ additionalResults' = None
    /\ UNCHANGED <<tab1, tab2ReportData, report, tab4>>

Tab2Rate(principal, interest, emi, monthlyRate) ==
    IF Le(emi, Mul(principal, monthlyRate)) /\ Gt(monthlyRate, Zero)
    THEN UNCHANGED page
    ELSE Tab2Show(principal, interest, monthlyRate, emi,
                  calculateMonthsToClose(principal, monthlyRate, emi))

\* calculateTab2(), the three fields holding text that parses to the arguments
calculateTab2(principal, interest, emi) ==
    IF isNaN(principal) \/ isNaN(interest) \/ isNaN(emi)
       \/ Le(principal, Zero) \/ Lt(interest, Zero) \/ Le(emi, Zero)
    THEN UNCHANGED page
    ELSE Tab2Rate(principal, interest, emi, MonthlyRate(interest))

\* the comparison and the recommendation of calculateAdditionalPayment
AdditionalSaved(data, newEmi, newMonthsToComplete, newTotalInterest, interestSaved) ==
    [set |-> TRUE,
     originalEmiAmount |-> formatCurrency(data.currentEmi),
     originalYears |-> data.yearsToComplete,
     originalInterest |-> formatCurrency(data.totalInterest),
     newEmiAmount |-> formatCurrency(newEmi),
     newYears |-> toFixed1(Div(newMonthsToComplete, C12)),
     newInterest |-> formatCurrency(newTotalInterest),
     monthsSaved |-> Sub(data.monthsToComplete, newMonthsToComplete),
     interestSaved |-> interestSaved,
     beneficial |-> Gt(interestSaved, Zero)]

AdditionalInterest(data, newEmi, newMonthsToComplete, newTotalInterest) ==
    AdditionalSaved(data, newEmi, newMonthsToComplete, newTotalInterest,
                    Sub(data.totalInterest, newTotalInterest))

AdditionalMonths(data, newEmi, newMonthsToComplete) ==
    /\ additionalResults' =
         AdditionalInterest(data, newEmi, newMonthsToComplete,
                            Sub(Mul(newEmi, newMonthsToComplete), data.principal))
    /\ tab2ReportData' =
         [set |-> TRUE, principal |-> data.principal, annualRate |-> data.interest,
          currentEmi |-> data.currentEmi, newEmi |-> newEmi,
          monthlyRate |-> data.monthlyRate,
          monthsToComplete |-> data.monthsToComplete,
          newMonthsToComplete |-> newMonthsToComplete]
    /\ UNCHANGED <<tab1, tab2Data, tab2Results, report, tab4>>

AdditionalEmi(data, newEmi) ==
    AdditionalMonths(data, newEmi,
                     calculateMonthsToClose(data.principal, data.monthlyRate, newEmi))

\* an additional payment that is taken off the EMI
calculateAdditionalPaymentLess(additionalAmount) ==
    IF ~tab2Data.set \/ isNaN(additionalAmount) \/ Lt(additionalAmount, Zero)
       \/ Eq(additionalAmount, Zero)
    THEN UNCHANGED page
    ELSE AdditionalEmi(tab2Data, Sub(tab2Data.currentEmi, additionalAmount))

\* calculateAdditionalPayment(), the field holding text that parses to
\* additionalAmount
calculateAdditionalPayment(additionalAmount) ==
    IF ~tab2Data.set \/ isNaN(additionalAmount) \/ Lt(additionalAmount, Zero)
       \/ Eq(additionalAmount, Zero)
    THEN UNCHANGED page
    ELSE AdditionalEmi(tab2Data, Add(tab2Data.currentEmi, additionalAmount))

\* the report of tab 3: the summary line and the table
Report(title, principal, emi, monthlyRate, totalMonths) ==
    /\ report' = [set |-> TRUE, title |-> title,
                  principal |-> formatCurrency(principal),
                  monthlyEmi |-> formatCurrency(emi),
                  table |-> generateReportTable(principal, emi, monthlyRate, totalMonths)]
    /\ UNCHANGED <<tab1, tab2Data, tab2Results, tab2ReportData, additionalResults, tab4>>

RemainingLoanReport(data, reportType) ==
    IF reportType = "current"
    THEN Report("Current EMI", data.principal, data.currentEmi,
                data.monthlyRate, data.monthsToComplete)
    ELSE Report("With Additional Payment", data.principal, data.newEmi,
                data.monthlyRate, data.newMonthsToComplete)

\* a report of the current EMI made from the loan that calculateTab2 stored,
\* whether or not an additional payment has been calculated
generateRemainingLoanReportOfStoredLoan(reportType) ==
    IF ~tab2Data.set THEN UNCHANGED page
    ELSE Report("Current EMI", tab2Data.principal, tab2Data.currentEmi,
                tab2Data.monthlyRate, tab2Data.monthsToComplete)

\* generateRemainingLoanReport(reportType)
generateRemainingLoanReport(reportType) ==
    IF ~tab2ReportData.set THEN UNCHANGED page
    ELSE RemainingLoanReport(tab2ReportData, reportType)

\* generateAmortizationReportForDuration(principal, annualRate, years), the
\* onclick of the Report button of a row of the comparison table
generateAmortizationReportForDuration(principal, annualRate, years) ==
    Report("years", principal, calculateEMI(principal, annualRate, years),
           MonthlyRate(annualRate), Mul(years, C12))

\* generateAmortizationReport()
generateAmortizationReport ==
    IF ~tab1Data.set THEN UNCHANGED page
    ELSE Report("years", tab1Data.principal, tab1Data.emi,
                MonthlyRate(tab1Data.annualRate), Mul(tab1Data.years, C12))

\* !x of a number: 0 and NaN are falsy
Falsy(x) == x.k = "nan" \/ (x.k = "fin" /\ x.m = 0)

\* the text of currentEmiDisplay and of yearsToComplete before any handler
\* has written it
UnwrittenAmount == [k |-> "unwritten", s |-> 1, m |-> 0, e |-> 0]
UnwrittenYears == [k |-> "unwritten", tenths |-> 0]

\* tab2Results made visible with the text it already had
Tab2Visible ==
    IF tab2Results.set THEN tab2Results
    ELSE [set |-> TRUE, currentEmiDisplay |-> UnwrittenAmount,
          yearsToComplete |-> UnwrittenYears]

\* calculateRemainingLoanBasic(), the three fields of tab 2 holding text that
\* parses to the arguments; tab2Results is visible when it is called
calculateRemainingLoanBasic(principal, interestRate, currentEmi) ==
    IF Falsy(principal) \/ Falsy(interestRate) \/ Falsy(currentEmi)
    THEN Tab2Visible
    ELSE [set |-> TRUE, currentEmiDisplay |-> formatCurrency(currentEmi),
          yearsToComplete |->
              toFixed1(Div(calculateMonthsToClose(principal, MonthlyRate(interestRate),
                                                  currentEmi), C12))]

\* the test of navigateToRemainingLoanWithData that ends in the alert
NavigateAlerts ==
    ~tab1Data.set \/ Falsy(tab1Data.principal) \/ Falsy(tab1Data.annualRate)
    \/ Falsy(tab1Data.emi)

\* navigateToRemainingLoanWithData(): the fields of tab 2 are filled with
\* the text of principal, rate and Math.round(emi), which parseFloat reads
\* back as the same numbers
navigateToRemainingLoanWithData ==
    IF NavigateAlerts THEN UNCHANGED page
    ELSE /\ additionalResults' = None
         /\ tab2Results' = calculateRemainingLoanBasic(tab1Data.principal, tab1Data.annualRate,
                                                       MathRound(tab1Data.emi))
         /\ UNCHANGED <<tab1, tab2Data, tab2ReportData, report, tab4>>

\* the body of durations.forEach in calculateTab4 for a duration <= totalYears:
\* the row added to tableHTML and the new bestOption and maxReturns
Tab4Best(acc, row, isBest) ==
    [rows |-> Append(acc.rows, [row EXCEPT !.isBest = isBest]),
     bestOption |-> IF isBest THEN row ELSE acc.bestOption,
     maxReturns |-> IF isBest THEN row.returns ELSE acc.maxReturns]

\* a comparison that lets the last of several equal candidates win
Tab4ReturnsLastSeen(acc, duration, durationInvested, durationMaturity, durationReturns) ==
    Tab4Best(acc,
             [set |-> TRUE, duration |-> duration, invested |-> durationInvested,
              returns |-> durationReturns, maturity |-> durationMaturity,
              returnPercentage |-> Mul(Div(durationReturns, durationInvested), C100),
              isBest |-> FALSE],
             Ge(durationReturns, acc.maxReturns))

\* returnPercentage is the number that toFixed(2) formats
Tab4Returns(acc, duration, durationInvested, durationMaturity, durationReturns) ==
    Tab4Best(acc,
             [set |-> TRUE, duration |-> duration, invested |-> durationInvested,
              returns |-> durationReturns, maturity |-> durationMaturity,
              returnPercentage |-> Mul(Div(durationReturns, durationInvested), C100),
              isBest |-> FALSE],
             Gt(durationReturns, acc.maxReturns))

Tab4Maturity(acc, duration, durationInvested, durationMaturity) ==
    Tab4Returns(acc, duration, durationInvested, durationMaturity,
                Sub(durationMaturity, durationInvested))

Tab4Months(acc, sipAmount, sipRate, duration, durationMonths) ==
    Tab4Maturity(acc, duration, Mul(sipAmount, durationMonths),
                 calculateSIPReturns(sipAmount, sipRate, durationMonths))

Tab4Row(acc, sipAmount, sipRate, totalYears, duration) ==
    IF Le(duration, totalYears)
    THEN Tab4Months(acc, sipAmount, sipRate, duration, MathRound(Mul(duration, C12)))
    ELSE acc

\* durations.forEach; maxReturns, assigned only where a comparison held, is
\* never NaN
RECURSIVE Tab4Rows(_, _, _, _, _)
Tab4Rows(acc, sipAmount, sipRate, totalYears, durations) ==
    IF durations = <<>> \/ isNaN(acc.maxReturns) THEN acc
    ELSE Tab4Rows(Tab4Row(acc, sipAmount, sipRate, totalYears, Head(durations)),
                  sipAmount, sipRate, totalYears, Tail(durations))

\* the comparison of calculateTab4
Tab4Compare(sipAmount, sipRate, totalYears) ==
    Tab4Rows([rows |-> <<>>, bestOption |-> None, maxReturns |-> Inf(-1)],
             sipAmount, sipRate, totalYears, Durations(totalYears))

\* the recommendation written to bestOptionTab4
Tab4Recommend(best) ==
    [set |-> TRUE, duration |-> best.duration, invested |-> formatCurrency(best.invested),
     returns |-> formatCurrency(best.returns), maturity |-> formatCurrency(best.maturity),
     returnPercent |-> best.returnPercentage]

\* what calculateTab4 writes once the comparison cmp is made
Tab4Show(sipAmount, sipRate, totalMonths, maturityValue, totalInvested, cmp) ==
    /\ tab4Results' = [set |-> TRUE, sipDisplayAmount |-> formatCurrency(sipAmount),
                       totalInvested |-> formatCurrency(totalInvested),
                       expectedReturns |-> formatCurrency(Sub(maturityValue, totalInvested)),
                       maturityValue |-> formatCurrency(maturityValue)]
    /\ sipTable' = cmp.rows
    /\ bestOptionTab4' =
         IF cmp.bestOption.set THEN Tab4Recommend(cmp.bestOption) ELSE bestOptionTab4
    /\ tab4Data' = [set |-> TRUE, sipAmount |-> sipAmount, sipRate |-> sipRate,
                    totalMonths |-> totalMonths, maturityValue |-> maturityValue,
                    totalInvested |-> totalInvested]
    /\ UNCHANGED <<tab1, tab2Data, tab2Results, tab2ReportData, additionalResults, report,
                   existingResults>>

Tab4Compute(sipAmount, sipRate, totalYears, totalMonths) ==
    Tab4Show(sipAmount, sipRate, totalMonths,
             calculateSIPReturns(sipAmount, sipRate, totalMonths),
             Mul(sipAmount, totalMonths),
             Tab4Compare(sipAmount, sipRate, totalYears))

Tab4Duration(sipAmount, sipRate, totalYears) ==
    IF Le(totalYears, Zero) THEN UNCHANGED page
    ELSE Tab4Compute(sipAmount, sipRate, totalYears, MathRound(Mul(totalYears, C12)))

\* calculateTab4(), the four fields holding text that parses to the arguments
calculateTab4(sipAmount, sipRate, sipYears, sipMonths) ==
    IF isNaN(sipAmount) \/ isNaN(sipRate) \/ Le(sipAmount, Zero) \/ Lt(sipRate, Zero)
    THEN UNCHANGED page
    ELSE Tab4Duration(sipAmount, sipRate,
                      Add(OrZero(sipYears), Div(OrZero(sipMonths), C12)))

\* what calculateWithExistingAmount writes: the two columns of
\* existingResults and the recommendation that replaces bestOptionTab4
ExistingShow(data, existingAmount, existingMaturity, withoutReturns) ==
    /\ existingResults' =
         [set |-> TRUE,
          withoutExistingInvested |-> formatCurrency(data.totalInvested),
          withoutExistingReturns |-> formatCurrency(withoutReturns),
          withoutExistingMaturity |-> formatCurrency(data.maturityValue),
          withExistingInvested |-> formatCurrency(Add(data.totalInvested, existingAmount)),
          withExistingReturns |->
              formatCurrency(Add(withoutReturns, Sub(existingMaturity, existingAmount))),
          withExistingMaturity |-> formatCurrency(Add(data.maturityValue, existingMaturity))]
    /\ bestOptionTab4' =
         [set |-> TRUE, existingAmount |-> formatCurrency(existingAmount),
          additionalBenefit |->
              formatCurrency(Sub(Add(data.maturityValue, existingMaturity),
                                 data.maturityValue))]
    /\ UNCHANGED <<tab1, tab2Data, tab2Results, tab2ReportData, additionalResults, report,
                   tab4Data, tab4Results, sipTable>>

\* calculateWithExistingAmount(), the field holding text that parses to
\* existingAmount
calculateWithExistingAmount(existingAmount) ==
    IF ~tab4Data.set \/ isNaN(existingAmount) \/ Lt(existingAmount, Zero)
    THEN UNCHANGED page
    ELSE ExistingShow(tab4Data, existingAmount,
                      Mul(existingAmount,
                          Pow(Add(One, MonthlyRate(tab4Data.sipRate)), tab4Data.totalMonths)),
                      Sub(tab4Data.maturityValue, tab4Data.totalInvested))

\* the text of a decimal fraction typed into a field, as parseFloat reads it
Dec(num, den) == Div(FromInt(num), FromInt(den))

\* what the user types into the fields of tab 1: principal, rate, years,
\* months, an empty field being read as NaN
Tab1Inputs ==
    { <<FromInt(1000), FromInt(150), One, Zero>>,
      <<FromInt(1000), Zero, One, Zero>>,
      <<FromInt(1000), FromInt(75), NaN, FromInt(6)>>,
      <<FromInt(1000), FromInt(150), Dec(7, 10), Zero>>,
      <<FromInt(1000), FromInt(1200), FromInt(3), Zero>>,
      <<FromInt(1000), FromInt(150), FromInt(5), FromInt(6)>>,
      <<FromInt(1000), Zero, FromInt(10), Zero>>,
      <<FromInt(1000), FromInt(1200), FromInt(10), Zero>>,
      <<FromInt(1000), FromInt(150), NaN, NaN>>,
      <<Zero, FromInt(150), One, Zero>>,
      <<NaN, FromInt(150), One, Zero>> }

\* the fields of tab 2: principal, rate, EMI
Tab2Inputs ==
    { <<FromInt(1000), FromInt(150), FromInt(200)>>,
      <<FromInt(1000), FromInt(150), FromInt(125)>>,
      <<FromInt(1000), Zero, FromInt(100)>>,
      <<FromInt(1000), Zero, Dec(1000, 15)>>,
      <<FromInt(1000), NaN, FromInt(100)>> }

\* the additional payment field
AdditionalInputs == {NaN, Zero, FromInt(-5), FromInt(100)}

\* a loan without interest that is paid off in more than MaxMonths months
Tab2LongInputs ==
    { <<FromInt(1000), Zero, Dec(3, 2)>>,
      <<FromInt(1000), Zero, Dec(1, 1048576)>>,
      <<FromInt(1000), Zero, FromInt(100)>>,
      <<FromInt(1000), FromInt(150), FromInt(200)>> }

AdditionalLongInputs == {One, FromInt(100), FromInt(200)}

Init ==
    /\ tab1Data = None
    /\ tab1Results = None
    /\ emiTable = <<>>
    /\ bestOptionTab1 = None
    /\ tab2Data = None
    /\ tab2Results = None
    /\ tab2ReportData = None
    /\ additionalResults = None
    /\ report = None
    /\ tab4Data = None
    /\ tab4Results = None
    /\ sipTable = <<>>
    /\ bestOptionTab4 = None
    /\ existingResults = None
    /\ args = NoArgs
    /\ ret = NoCall

\* a click on Calculate EMI with the fields holding one of inputs
ClickCalculateTab1(inputs) ==
    /\ \E in \in inputs : calculateTab1(in[1], in[2], in[3], in[4])
    /\ UNCHANGED <<args, ret>>

ClickCalculateTab2(inputs) ==
    /\ \E in \in inputs : calculateTab2(in[1], in[2], in[3])
    /\ UNCHANGED <<args, ret>>

\* a click on Calculate with the additional payment field holding one of
\* inputs; args keeps the amount of the last payment that was accepted
ClickCalculateAdditionalPayment(inputs) ==
    /\ \E amount \in inputs :
           /\ calculateAdditionalPayment(amount)
           /\ args' = IF tab2Data.set /\ Gt(amount, Zero)
                       THEN [kind |-> "additional", additionalAmount |-> amount]
                       ELSE args
    /\ UNCHANGED ret

ClickRemainingLoanReport ==
    /\ \E reportType \in {"current", "additional"} : generateRemainingLoanReport(reportType)
    /\ UNCHANGED <<args, ret>>

\* a click on the Report button of a row of the comparison table
ClickRowReport ==
    /\ \E i \in 1..Len(emiTable) :
           generateAmortizationReportForDuration(emiTable[i].reportArgs[1],
                                                 emiTable[i].reportArgs[2],
                                                 emiTable[i].reportArgs[3])
    /\ UNCHANGED <<args, ret>>

ClickAmortizationReport ==
    /\ generateAmortizationReport
    /\ UNCHANGED <<args, ret>>

Next ==
    \/ ClickCalculateTab1(Tab1Inputs)
    \/ ClickCalculateTab2(Tab2Inputs)
    \/ ClickCalculateAdditionalPayment(AdditionalInputs)
    \/ ClickRemainingLoanReport
    \/ ClickAmortizationReport
    \/ ClickRowReport

Spec == Init /\ [][Next]_vars

\* the remaining-loan tab used for loans that take long to pay off
NextLong ==
    \/ ClickCalculateTab2(Tab2LongInputs)
    \/ ClickCalculateAdditionalPayment(AdditionalLongInputs)
    \/ ClickRemainingLoanReport

SpecLong == Init /\ [][NextLong]_vars

\* the fields of tab 4: SIP amount, rate, years, months (NaN: left empty)
Tab4Inputs ==
    { <<FromInt(100), r, y, m>> : r \in {Zero, FromInt(75), FromInt(150)},
                                  y \in {NaN, One, FromInt(7), FromInt(10)},
                                  m \in {NaN, FromInt(6)} }
    \cup
    { <<FromInt(100), Dec(1, 8), FromInt(10), NaN>>,
      <<FromInt(100), FromInt(75), NaN, Dec(3, 8)>>,
      <<FromInt(1000), FromInt(3), FromInt(15), NaN>>,
      <<Zero, FromInt(3), One, NaN>>, <<NaN, FromInt(3), One, NaN>>,
      <<FromInt(100), FromInt(-3), One, NaN>>, <<FromInt(100), NaN, One, NaN>> }

\* a click on Calculate SIP with the fields holding one of inputs; args
\* keeps what the fields held
ClickCalculateTab4(inputs) ==
    /\ \E in \in inputs :
           /\ calculateTab4(in[1], in[2], in[3], in[4])
           /\ args' = [kind |-> "tab4", sipAmount |-> in[1], sipRate |-> in[2],
                       sipYears |-> in[3], sipMonths |-> in[4]]
    /\ UNCHANGED ret

NextSip == ClickCalculateTab4(Tab4Inputs)

SpecSip == Init /\ [][NextSip]_vars

\* the fields of tab 1 before a click on the link to tab 2
NavTab1Inputs ==
    { <<FromInt(1000), FromInt(150), One, Zero>>,
      <<FromInt(1000), FromInt(150), FromInt(5), FromInt(6)>>,
      <<FromInt(1000), Zero, One, Zero>>,
      <<FromInt(1000), FromInt(1200), FromInt(3), Zero>>,
      <<One, FromInt(75), One, Zero>>,
      <<NaN, FromInt(150), One, Zero>> }

NavTab2Inputs ==
    { <<FromInt(1000), FromInt(150), FromInt(200)>>,
      <<FromInt(1000), Zero, FromInt(100)>>,
      <<FromInt(1000), NaN, FromInt(100)>> }

\* a click on the link that carries the loan of tab 1 to tab 2; args keeps
\* the loan the handler read and ret whether it ended in the alert
ClickNavigate ==
    /\ navigateToRemainingLoanWithData
    /\ args' = [kind |-> "navigate", loan |-> tab1Data]
    /\ ret' = [fn |-> "navigateToRemainingLoanWithData", alert |-> NavigateAlerts]

NextNav ==
    \/ ClickCalculateTab1(NavTab1Inputs)
    \/ ClickNavigate
    \/ ClickCalculateTab2(NavTab2Inputs)
    \/ ClickCalculateAdditionalPayment(AdditionalInputs)
    \/ ClickRemainingLoanReport

SpecNav == Init /\ [][NextNav]_vars

\* the fields of the four tabs when the handlers of all of them are used
\* in any order
PageTab1Inputs == {<<FromInt(1000), FromInt(150), One, Zero>>, <<NaN, FromInt(150), One, Zero>>}
PageTab2Inputs == {<<FromInt(1000), FromInt(150), FromInt(200)>>, <<FromInt(1000), NaN, FromInt(100)>>}
PageAdditionalInputs == {Zero, FromInt(100)}
PageTab4Inputs == {<<FromInt(100), FromInt(75), One, NaN>>, <<Zero, FromInt(3), One, NaN>>}
ExistingInputs == {NaN, FromInt(-5), Zero, FromInt(500)}

\* a click on Calculate with Existing Amount with the field holding one of
\* inputs; ret keeps whether the call ended in an alert
ClickCalculateWithExistingAmount(inputs) ==
    /\ \E amount \in inputs :
           /\ calculateWithExistingAmount(amount)
           /\ ret' = [fn |-> "calculateWithExistingAmount",
                      alert |-> ~tab4Data.set \/ isNaN(amount) \/ Lt(amount, Zero)]
    /\ UNCHANGED args

NextPage ==
    \/ ClickCalculateTab1(PageTab1Inputs)
    \/ ClickCalculateTab2(PageTab2Inputs)
    \/ ClickCalculateAdditionalPayment(PageAdditionalInputs)
    \/ ClickRemainingLoanReport
    \/ ClickAmortizationReport
    \/ ClickRowReport
    \/ ClickNavigate
    \/ ClickCalculateTab4(PageTab4Inputs)
    \/ ClickCalculateWithExistingAmount(ExistingInputs)

SpecPage == Init /\ [][NextPage]_vars

(***************************************************************************)
(* The numeric functions called directly: args holds the arguments of one  *)
(* call, ret the name of the function called and what it returned.         *)
(***************************************************************************)

\* a term of months whole months as the years argument of calculateEMI
Years(months) == Div(FromInt(months), C12)

\* loans for calculateEMI: principal, annual rate in per cent, term in months
EmiArgs ==
    [kind : {"emi"}, principal : {FromInt(1000), FromInt(100000)},
     annualRate : {Zero, FromInt(75), FromInt(150)},
     months : {1, 2, 5, 7, 11, 12, 15, 24}]
    \cup
    { [kind |-> "emi", principal |-> FromInt(in[1]), annualRate |-> FromInt(in[2]),
       months |-> in[3]] :
        in \in { <<0, 150, 12>>, <<-1000, 150, 12>>, <<1000, -75, 12>>,
                 <<1000, 150, 0>>, <<1000, 150, -12>>, <<1000, 0, 0>>,
                 <<100000, 1200, 12>>, <<100000, 1200, 36>> } }

\* loans for calculateEMI with the term in years, whole or not
EmiYearsArgs ==
    [kind : {"emiYears"}, principal : {FromInt(1000), FromInt(8388608)},
     annualRate : {Zero, FromInt(150)}, years : {One, Dec(1, 64)}]

\* loans for calculateMonthsToClose: principal, monthly rate, EMI
MonthsArgs ==
    [kind : {"months"}, principal : {FromInt(1000)},
     monthlyRate : {Zero, Dec(1, 8), Dec(1, 16)},
     emi : {FromInt(125), Dec(4001, 32), FromInt(126), FromInt(200), FromInt(100),
            Dec(125, 2), Dec(1000, 7), Dec(1000, 11), Dec(1000, 15), Dec(3, 2),
            Dec(1222, 11), Zero, FromInt(-5)}]
    \cup
    [kind : {"months"}, principal : {Zero, FromInt(-1000)},
     monthlyRate : {Zero, Dec(1, 8)}, emi : {FromInt(200)}]

\* the longest term, in months, of the pairs of terms of ordinary length
MaxTerm == 36

\* pairs of terms for one loan: principal, annual rate in per cent, a term
\* in months and a longer term in months
TermsArgs ==
    { a \in [kind : {"terms"}, principal : {FromInt(1000), FromInt(100000)},
             annualRate : {FromInt(75), FromInt(150)},
             months : {1, 7, 12, 24}, longer : {12, 24, MaxTerm}] : a.months < a.longer }
    \cup
    { [kind |-> "terms", principal |-> FromInt(in[1]), annualRate |-> FromInt(in[2]),
       months |-> in[3], longer |-> in[4]] :
        in \in { <<1000, 150, 90, 96>>, <<100000, 1200, 12, 36>>, <<1000, 1200, 12, 36>>,
                 <<1000, 1200, 1, 12>>, <<1000, 0, 12, 24>> } }

\* plans for calculateSIPReturns: monthly amount, annual rate in per cent,
\* number of months
SipArgs ==
    [kind : {"sip"}, monthlyAmount : {FromInt(100), FromInt(1000)},
     annualRate : {Zero, Dec(1, 8), FromInt(3), FromInt(75), FromInt(150), FromInt(1200)},
     months : {1, 5, 12, 24}]

InitFn ==
    /\ tab1Data = None
    /\ tab1Results = None
    /\ emiTable = <<>>
    /\ bestOptionTab1 = None
    /\ tab2Data = None
    /\ tab2Results = None
    /\ tab2ReportData = None
    /\ additionalResults = None
    /\ report = None
    /\ tab4Data = None
    /\ tab4Results = None
    /\ sipTable = <<>>
    /\ bestOptionTab4 = None
    /\ existingResults = None
    /\ args \in EmiArgs \cup EmiYearsArgs \cup MonthsArgs \cup TermsArgs \cup SipArgs
    /\ ret = NoCall

CallCalculateEMI ==
    /\ args.kind = "emi"
    /\ ret' = [fn |-> "calculateEMI",
               value |-> calculateEMI(args.principal, args.annualRate, Years(args.months))]
    /\ UNCHANGED <<page, args>>

\* calculateTotalInterest for the EMI that calculateEMI returns
TotalInterestOf(principal, years, emi) ==
    [fn |-> "calculateTotalInterest", emi |-> emi,
     value |-> calculateTotalInterest(principal, emi, years)]

CallCalculateTotalInterest ==
    /\ args.kind = "emi"
    /\ ret' = TotalInterestOf(args.principal, Years(args.months),
                  calculateEMI(args.principal, args.annualRate, Years(args.months)))
    /\ UNCHANGED <<page, args>>

\* calculateMonthsToClose for the EMI that calculateEMI returns
RoundTripOf(principal, monthlyRate, emi) ==
    [fn |-> "roundTrip", emi |-> emi,
     value |-> calculateMonthsToClose(principal, monthlyRate, emi)]

CallRoundTrip ==
    /\ args.kind = "emi"
    /\ ret' = RoundTripOf(args.principal, MonthlyRate(args.annualRate),
                  calculateEMI(args.principal, args.annualRate, Years(args.months)))
    /\ UNCHANGED <<page, args>>

CallCalculateMonthsToClose ==
    /\ args.kind = "months"
    /\ ret' = [fn |-> "calculateMonthsToClose",
               value |-> calculateMonthsToClose(args.principal, args.monthlyRate, args.emi)]
    /\ UNCHANGED <<page, args>>

\* the longest time, in months, after which the remaining loan is asked for
MaxAfter == 16

\* calculateRemainingLoan after a whole number of months, next to the month
\* count of calculateMonthsToClose for the same loan
CallCalculateRemainingLoan ==
    /\ args.kind = "months"
    /\ \E k \in 0..MaxAfter :
           ret' = [fn |-> "calculateRemainingLoan", months |-> FromInt(k),
                   value |-> calculateRemainingLoan(args.principal, args.monthlyRate,
                                                    args.emi, FromInt(k)),
                   monthsToClose |-> calculateMonthsToClose(args.principal,
                                                            args.monthlyRate, args.emi)]
    /\ UNCHANGED <<page, args>>

\* calculateEMI and calculateTotalInterest for a term and for a longer term
\* of the same loan
CompareTermsOf(principal, years, longerYears, emi, longerEmi) ==
    [fn |-> "compareTerms", emi |-> emi, longerEmi |-> longerEmi,
     interest |-> calculateTotalInterest(principal, emi, years),
     longerInterest |-> calculateTotalInterest(principal, longerEmi, longerYears)]

CallCompareTerms ==
    /\ args.kind = "terms"
    /\ ret' = CompareTermsOf(args.principal, Years(args.months), Years(args.longer),
                  calculateEMI(args.principal, args.annualRate, Years(args.months)),
                  calculateEMI(args.principal, args.annualRate, Years(args.longer)))
    /\ UNCHANGED <<page, args>>

CallCalculateSIPReturns ==
    /\ args.kind = "sip"
    /\ ret' = [fn |-> "calculateSIPReturns",
               value |-> calculateSIPReturns(args.monthlyAmount, args.annualRate,
                                             FromInt(args.months))]
    /\ UNCHANGED <<page, args>>

CallCalculateEMIYears ==
    /\ args.kind = "emiYears"
    /\ ret' = [fn |-> "calculateEMIYears",
               value |-> calculateEMI(args.principal, args.annualRate, args.years)]
    /\ UNCHANGED <<page, args>>

NextFn ==
    \/ CallCalculateEMI
    \/ CallCalculateEMIYears
    \/ CallCalculateTotalInterest
    \/ CallRoundTrip
    \/ CallCalculateMonthsToClose
    \/ CallCalculateRemainingLoan
    \/ CallCompareTerms
    \/ CallCalculateSIPReturns

SpecFn == InitFn /\ [][NextFn]_vars

(***************************************************************************)
(* Properties of the numeric functions, checked under SpecFn.              *)
(***************************************************************************)

\* the preconditions of calculateEMI for the arguments a of a call
ValidLoan(a) ==
    Gt(a.principal, Zero) /\ Ge(a.annualRate, Zero) /\ Gt(Years(a.months), Zero)
InvalidLoan(a) ==
    Le(a.principal, Zero) \/ Lt(a.annualRate, Zero) \/ Le(Years(a.months), Zero)

\* principal * r * (1+r)^n / ((1+r)^n - 1) in the arithmetic of the program
Annuity(principal, r, n) ==
    LET pw == Pow(Add(One, r), n)
    IN Div(Mul(Mul(principal, r), pw), Sub(pw, One))
AnnuityOf(a) == Annuity(a.principal, MonthlyRate(a.annualRate), FromInt(a.months))

C2_ZeroRateNoInterest ==
    (ret.fn = "calculateTotalInterest" /\ ValidLoan(args) /\ args.annualRate = Zero) =>
        /\ ret.emi = Div(args.principal, FromInt(args.months))
        /\ Mul(FromInt(args.months), ret.emi) = args.principal
        /\ ret.value = Zero

\* the balance after n periods of balance' = balance * growth - payment; a
\* balance that is NaN stays NaN
RECURSIVE BalanceAfter(_, _, _, _)
BalanceAfter(balance, growth, payment, n) ==
    IF n = 0 \/ isNaN(balance) THEN balance
    ELSE BalanceAfter(Sub(Mul(balance, growth), payment), growth, payment, n - 1)

BalanceOf(a, payment, n) ==
    BalanceAfter(a.principal, Add(One, MonthlyRate(a.annualRate)), payment, n)

PositiveLoan(a) == Gt(a.principal, Zero) /\ Gt(a.emi, Zero) /\ Gt(a.monthlyRate, Zero)

\* C5: for principal > 0, emi > 0 and monthlyRate > 0, calculateMonthsToClose
\* returns Infinity if and only if emi <= principal * monthlyRate, and a
\* finite whole number of months in every other case.
C5_UnboundedIffInterestNotCovered ==
    (ret.fn = "calculateMonthsToClose" /\ PositiveLoan(args)) =>
        /\ ret.value = Inf(1) <=> Le(args.emi, Mul(args.principal, args.monthlyRate))
        /\ ret.value # Inf(1) => isInteger(ret.value) /\ Ge(ret.value, Zero)

\* an EMI equal to the interest of the first month, answered with Infinity
C5_UnboundedAtEquality ==
    /\ ret.fn = "calculateMonthsToClose" /\ PositiveLoan(args)
    /\ args.emi = Mul(args.principal, args.monthlyRate)
    /\ ret.value = Inf(1)

\* the balances after 1, 2, ... months of balance' = balance + balance *
\* monthlyRate - emi, added to seq n at a time
RECURSIVE BalancesRun(_, _, _, _)
BalancesRun(seq, monthlyRate, emi, n) ==
    IF n = 0 \/ Len(seq) >= MaxMonths THEN seq
    ELSE BalancesRun(Append(seq, Sub(Add(seq[Len(seq)], Mul(seq[Len(seq)], monthlyRate)), emi)),
                     monthlyRate, emi, n - 1)

RECURSIVE BalancesFrom(_, _, _)
BalancesFrom(seq, monthlyRate, emi) ==
    IF Len(seq) >= MaxMonths THEN seq
    ELSE BalancesFrom(BalancesRun(seq, monthlyRate, emi, Chunk), monthlyRate, emi)

\* the balances after 1 .. MaxMonths months
Balances(principal, monthlyRate, emi) ==
    BalancesFrom(<<Sub(Add(principal, Mul(principal, monthlyRate)), emi)>>, monthlyRate, emi)

\* the least m >= 1 with a balance <= 0 after m months, MaxMonths when there
\* is none up to MaxMonths
PayoffMonth(balances) ==
    IF \E m \in 1..MaxMonths : Le(balances[m], Zero)
    THEN CHOOSE m \in 1..MaxMonths :
             /\ Le(balances[m], Zero)
             /\ \A k \in 1..(m - 1) : ~Le(balances[k], Zero)
    ELSE MaxMonths

\* the balance is positive after each of the MaxMonths months
StillOwed(balances) == \A m \in 1..MaxMonths : Gt(balances[m], Zero)

\* C6: for principal > 0, monthlyRate > 0 and emi > principal * monthlyRate,
\* calculateMonthsToClose returns the least m >= 1 such that the balance
\* after m applications of balance' = balance + balance * monthlyRate - emi
\* is <= 0 when that m is at most 600, and exactly 600 otherwise; it never
\* returns more than 600 in this branch.
C6_LeastPayoffMonthOrCap ==
    (/\ ret.fn = "calculateMonthsToClose"
     /\ Gt(args.principal, Zero) /\ Gt(args.monthlyRate, Zero)
     /\ Gt(args.emi, Mul(args.principal, args.monthlyRate))) =>
        /\ ret.value = FromInt(PayoffMonth(Balances(args.principal, args.monthlyRate, args.emi)))
        /\ Le(ret.value, FromInt(MaxMonths))

\* a loan whose balance is still positive after 600 months, answered with 600
C6_StoppedAtCap ==
    /\ ret.fn = "calculateMonthsToClose"
    /\ Gt(args.principal, Zero) /\ Gt(args.monthlyRate, Zero)
    /\ Gt(args.emi, Mul(args.principal, args.monthlyRate))
    /\ ret.value = FromInt(MaxMonths)
    /\ StillOwed(Balances(args.principal, args.monthlyRate, args.emi))

\* the least whole m with principal - m * emi <= 0 in exact arithmetic, for
\* finite principal > 0 and emi > 0: the quotient of the two values, rounded up
ExactCeilDiv(num, den) == (num + den - 1) \div den
LeastMonths(principal, emi) ==
    IF principal.e >= emi.e
    THEN ExactCeilDiv(principal.m * (2 ^ (principal.e - emi.e)), emi.m)
    ELSE ExactCeilDiv(principal.m, emi.m * (2 ^ (emi.e - principal.e)))

ZeroRateLoan(a) == Gt(a.principal, Zero) /\ Gt(a.emi, Zero) /\ a.monthlyRate = Zero

C8_LoopsWithinCap ==
    /\ (tab2Data.set /\ Gt(tab2Data.monthlyRate, Zero)) =>
           Le(tab2Data.monthsToComplete, FromInt(MaxMonths))
    /\ (tab2ReportData.set /\ Gt(tab2ReportData.monthlyRate, Zero)) =>
           Le(tab2ReportData.newMonthsToComplete, FromInt(MaxMonths))
    /\ report.set => ~report.table.hang /\ Len(report.table.rows) <= MaxMonths

\* C9: every amortization report made from an accepted calculation has
\* exactly as many rows as the term has months, and the remaining principal
\* shown in its final row is 0.
C9_ReportEndsAtZero ==
    report.set =>
        /\ ~report.table.hang
        /\ FromInt(Len(report.table.rows)) = report.table.totalMonths
        /\ report.table.rows[Len(report.table.rows)].remainingShown = Zero

\* C10: in every amortization report that the flows of the application can
\* produce, the remaining principal is non-negative in every row and never
\* increases from one row to the next.
C10_RemainingNeverIncreases ==
    report.set =>
        \A i \in 1..Len(report.table.rows) :
            /\ Ge(report.table.rows[i].remainingPrincipal, Zero)
            /\ i > 1 => Le(report.table.rows[i].remainingPrincipal,
                           report.table.rows[i - 1].remainingPrincipal)

\* C11: in every row of generateReportTable the interest portion is the
\* balance at the start of the row times monthlyRate; in every row except
\* the last the principal portion is the EMI less the interest portion, so
\* that the two make up the EMI; and the principal portion is never larger
\* than the balance at the start of the row.
C11_RowPortions ==
    report.set =>
        \A i \in 1..Len(report.table.rows) :
            /\ report.table.rows[i].interestPayment =
                   Mul(report.table.rows[i].previousRemaining, report.table.monthlyRate)
            /\ i < Len(report.table.rows) =>
                   report.table.rows[i].principalPayment =
                       Sub(report.table.emi, report.table.rows[i].interestPayment)
            /\ Le(report.table.rows[i].principalPayment,
                  report.table.rows[i].previousRemaining)

(***************************************************************************)
(* Properties of pairs of terms, checked under SpecFn.                     *)
(***************************************************************************)

\* a valid loan with interest and two terms, the second the longer
TwoTerms(a) ==
    /\ Gt(a.principal, Zero) /\ Gt(a.annualRate, Zero)
    /\ 0 < a.months /\ a.months < a.longer

\* the value of the formula of calculateEMI for the longer term
LongerAnnuityOf(a) == Annuity(a.principal, MonthlyRate(a.annualRate), FromInt(a.longer))

Candidates(years) ==
    { d \in {FromInt(5), FromInt(10), FromInt(15), FromInt(20), FromInt(25), years} :
        Le(d, years) }

\* row k has the smallest total interest of rows, and is the first that has it
FirstLeast(rows, k) ==
    \A j \in 1..Len(rows) :
        /\ Ge(rows[j].interest, rows[k].interest)
        /\ j < k => Gt(rows[j].interest, rows[k].interest)

\* C13: the comparison of calculateTab1 has exactly the candidate durations
\* that are <= the selected duration, in ascending order, and the
\* recommended bestOption is the candidate with the smallest total interest
\* among them, the first seen of several with equal total interest.
C13_BestIsFirstLeastInterest ==
    tab1Data.set =>
        /\ {emiTable[i].duration : i \in 1..Len(emiTable)} = Candidates(tab1Data.years)
        /\ \A i \in 1..Len(emiTable) : \A j \in 1..Len(emiTable) :
               i < j => Lt(emiTable[i].duration, emiTable[j].duration)
        /\ (\E i \in 1..Len(emiTable) : Lt(emiTable[i].interest, Inf(1))) =>
               /\ bestOptionTab1.set
               /\ \E k \in 1..Len(emiTable) :
                      /\ FirstLeast(emiTable, k)
                      /\ bestOptionTab1.duration = emiTable[k].duration
                      /\ bestOptionTab1.interest = formatCurrency(emiTable[k].interest)

\* a comparison in which two candidates have the same total interest and
\* the shorter of them is recommended
C13_TieKeepsFirstSeen ==
    /\ tab1Data.set /\ bestOptionTab1.set
    /\ \E k \in 1..Len(emiTable) : \E j \in 1..Len(emiTable) :
           /\ k < j
           /\ emiTable[j].interest = emiTable[k].interest
           /\ FirstLeast(emiTable, k)
           /\ bestOptionTab1.duration = emiTable[k].duration

\* C14: after every calculateTab1 whose input passes validation the
\* comparison table is not empty, has a row for the selected duration, shows
\* an EMI > 0 in every row, and a best option is recommended.
C14_ComparisonHasPositiveEmis ==
    tab1Data.set =>
        /\ Len(emiTable) > 0
        /\ \E i \in 1..Len(emiTable) :
               emiTable[i].isSelected /\ emiTable[i].duration = tab1Data.years
        /\ \A i \in 1..Len(emiTable) : Gt(emiTable[i].emi, Zero)
        /\ bestOptionTab1.set

(***************************************************************************)
(* Properties of the SIP calculator.                                       *)
(***************************************************************************)

\* C16: for every monthly contribution > 0, annual rate >= 0 and whole
\* number of months >= 1, calculateSIPReturns is at least contribution *
\* months, and equal to it exactly when the rate is 0.
C16_SipNotBelowContributions ==
    (/\ ret.fn = "calculateSIPReturns"
     /\ Gt(args.monthlyAmount, Zero) /\ Ge(args.annualRate, Zero) /\ args.months >= 1) =>
        /\ Ge(ret.value, Mul(args.monthlyAmount, FromInt(args.months)))
        /\ ret.value = Mul(args.monthlyAmount, FromInt(args.months))
               <=> args.annualRate = Zero

\* the duration selected in the fields of tab 4, in years
SelectedYears(a) == Add(OrZero(a.sipYears), Div(OrZero(a.sipMonths), C12))

\* the fields of tab 4 held values that calculateTab4 accepts
Tab4Accepted(a) ==
    /\ a.kind = "tab4"
    /\ Gt(a.sipAmount, Zero) /\ Ge(a.sipRate, Zero) /\ Gt(SelectedYears(a), Zero)

\* row k has the greatest returns of rows, and is the first that has them
FirstMost(rows, k) ==
    \A j \in 1..Len(rows) :
        /\ Le(rows[j].returns, rows[k].returns)
        /\ j < k => Lt(rows[j].returns, rows[k].returns)

\* C15: the comparison of calculateTab4 visits the candidate durations that
\* are <= the selected duration in ascending order, and the recommended
\* bestOption is the candidate with the greatest total return (maturity less
\* invested), the first seen of several with equal returns.
C15_BestIsFirstMostReturns ==
    Tab4Accepted(args) =>
        /\ {sipTable[i].duration : i \in 1..Len(sipTable)} = Candidates(SelectedYears(args))
        /\ \A i \in 1..Len(sipTable) : \A j \in 1..Len(sipTable) :
               i < j => Lt(sipTable[i].duration, sipTable[j].duration)
        /\ \A i \in 1..Len(sipTable) :
               sipTable[i].returns = Sub(sipTable[i].maturity, sipTable[i].invested)
        /\ (\E i \in 1..Len(sipTable) : Gt(sipTable[i].returns, Inf(-1))) =>
               /\ bestOptionTab4.set
               /\ \E k \in 1..Len(sipTable) :
                      /\ FirstMost(sipTable, k)
                      /\ bestOptionTab4.duration = sipTable[k].duration
                      /\ bestOptionTab4.returns = formatCurrency(sipTable[k].returns)

\* a comparison in which two candidates have the same returns and the
\* shorter of them is recommended
C15_EqualReturnsKeepFirstSeen ==
    /\ Tab4Accepted(args) /\ bestOptionTab4.set
    /\ \E k \in 1..Len(sipTable) : \E j \in 1..Len(sipTable) :
           /\ k < j
           /\ sipTable[j].returns = sipTable[k].returns
           /\ FirstMost(sipTable, k)
           /\ bestOptionTab4.duration = sipTable[k].duration

(***************************************************************************)
(* Properties of the duration fields                                       *)
(***************************************************************************)

\* C17: the month count that computes the EMI of tab 1 and drives its
\* amortization report is the integer round((years + months/12) * 12), as
\* on the SIP side: every report made from tab 1 runs over a whole number
\* of months.
C17_ReportMonthsAreRounded ==
    (report.set /\ report.title = "years") =>
        report.table.totalMonths = MathRound(report.table.totalMonths)

(***************************************************************************)
(* Properties of the additional payment                                    *)
(***************************************************************************)

\* the additional payment field held an amount > 0 when a loan was stored
PaidMore == args.kind = "additional" /\ tab2ReportData.set

\* C18: for a loan accepted by calculateTab2 and an additional amount > 0,
\* calculateAdditionalPayment uses newEmi = currentEmi + additionalAmount, and
\* the months to close with newEmi are never more than the months to close
\* with currentEmi.
C18_MoreEmiNotMoreMonths ==
    PaidMore =>
        /\ tab2ReportData.newEmi = Add(tab2ReportData.currentEmi, args.additionalAmount)
        /\ Le(tab2ReportData.newMonthsToComplete, tab2ReportData.monthsToComplete)

\* an additional payment that closes the loan in fewer months
C18_FewerMonths ==
    /\ PaidMore
    /\ Gt(tab2ReportData.newEmi, tab2ReportData.currentEmi)
    /\ Lt(tab2ReportData.newMonthsToComplete, tab2ReportData.monthsToComplete)

\* C19: for a loan accepted by calculateTab2 and an additional amount > 0,
\* the total interest computed for the increased EMI (newEmi times
\* newMonthsToComplete, less the principal) is less than the total interest
\* stored for the current EMI: interestSaved is positive and the beneficial
\* recommendation is shown.
C19_MoreEmiSavesInterest ==
    additionalResults.set =>
        /\ Gt(additionalResults.interestSaved, Zero)
        /\ additionalResults.beneficial

\* C20: calculateTab2 rejects an EMI that does not exceed the interest of
\* the first month, so the stored monthsToComplete and newMonthsToComplete
\* are finite positive integers, never Infinity, and no report is made with
\* a row count that is not finite.
C20_MonthCountsAreFinite ==
    /\ tab2Data.set =>
           /\ isInteger(tab2Data.monthsToComplete)
           /\ Gt(tab2Data.monthsToComplete, Zero)
    /\ tab2ReportData.set =>
           /\ isInteger(tab2ReportData.newMonthsToComplete)
           /\ Gt(tab2ReportData.newMonthsToComplete, Zero)
    /\ report.set => isFinite(report.table.totalMonths) /\ ~report.table.hang

(***************************************************************************)
(* Properties of the link from tab 1 to tab 2, checked under SpecNav       *)
(***************************************************************************)

\* C21: an EMI that does not cover the interest is never shown as a
\* duration: whenever years-to-complete is displayed, by calculateTab2 or by
\* navigateToRemainingLoanWithData and calculateRemainingLoanBasic with the
\* EMI rounded, the text is that of a finite month count.
C21_YearsShownAreFinite ==
    (tab2Results.set /\ tab2Results.yearsToComplete # UnwrittenYears) =>
        tab2Results.yearsToComplete.k = "num"

\* C23: an interest-free loan is not an error: after a calculateTab1 that
\* succeeded with annual rate 0, navigateToRemainingLoanWithData fills the
\* form of tab 2 with that loan and shows its years to complete instead of
\* ending in the alert, as it does for a loan with rate > 0.
C23_InterestFreeLoanIsCarried ==
    (ret.fn = "navigateToRemainingLoanWithData" /\ args.loan.set
       /\ Eq(args.loan.annualRate, Zero)) =>
        ~ret.alert


(***************************************************************************)
(* Further properties of the numeric functions, checked under SpecFn       *)
(***************************************************************************)

\* C22: calculateEMI never returns NaN or Infinity: on the zero-rate branch
\* and on the formula branch alike the result is a finite number, 0 where
\* the computation would not be finite.
C22_EmiIsFinite ==
    ret.fn \in {"calculateEMI", "calculateEMIYears"} => isFinite(ret.value)

(***************************************************************************)
(* Properties of the stored records across handlers                        *)
(***************************************************************************)

\* C24: the loan that generateRemainingLoanReport reports on is the loan of
\* the most recent successful calculateTab2: tab2ReportData, when set,
\* agrees with tab2Data on principal, interest rate, currentEmi and
\* monthsToComplete.
C24_ReportDataIsOfStoredLoan ==
    tab2ReportData.set =>
        /\ tab2Data.set
        /\ tab2ReportData.principal = tab2Data.principal
        /\ tab2ReportData.annualRate = tab2Data.interest
        /\ tab2ReportData.currentEmi = tab2Data.currentEmi
        /\ tab2ReportData.monthsToComplete = tab2Data.monthsToComplete

\* C25: after navigateToRemainingLoanWithData has shown the results for the
\* loan of tab 1, calculateAdditionalPayment operates on that loan: the loan
\* it reads from tab2Data is the loan whose EMI and years to complete the
\* form of tab 2 displays.
C25_ShownLoanIsStoredLoan ==
    (tab2Results.set /\ tab2Results.yearsToComplete # UnwrittenYears) =>
        /\ tab2Data.set
        /\ tab2Results.currentEmiDisplay = formatCurrency(tab2Data.currentEmi)
        /\ tab2Results.yearsToComplete = tab2Data.yearsToComplete

(***************************************************************************)
(* Properties of the comparison tables                                     *)
(***************************************************************************)

\* the rows of a comparison table that carry the best-row class and badge
BestRows(rows) == {i \in 1..Len(rows) : rows[i].isBest}

\* C26: in the EMI table of calculateTab1 and in the SIP table of
\* calculateTab4 exactly one row is marked Best, and it is the row of the
\* candidate that the recommendation names.
C26_OneRowMarkedBest ==
    /\ emiTable # <<>> =>
           \E k \in 1..Len(emiTable) :
               /\ BestRows(emiTable) = {k}
               /\ bestOptionTab1.set /\ bestOptionTab1.duration = emiTable[k].duration
    /\ sipTable # <<>> =>
           \E k \in 1..Len(sipTable) :
               /\ BestRows(sipTable) = {k}
               /\ bestOptionTab4.set /\ bestOptionTab4.duration = sipTable[k].duration

(***************************************************************************)
(* Properties of the handlers of all tabs, checked under SpecPage          *)
(***************************************************************************)

\* the titles of the reports that generateRemainingLoanReport makes
RemainingLoanTitles == {"Current EMI", "With Additional Payment"}

\* C27: a dependent operation does nothing before its prerequisite has
\* succeeded: no result of calculateAdditionalPayment before calculateTab2
\* has stored a loan, no remaining-loan report before
\* calculateAdditionalPayment has stored its data, no amortization report
\* before calculateTab1 has stored a loan, nothing displayed by
\* calculateWithExistingAmount before calculateTab4 has stored its data.
C27_DependentsAreGated ==
    /\ (additionalResults.set \/ tab2ReportData.set) => tab2Data.set
    /\ (report.set /\ report.title \in RemainingLoanTitles) => tab2ReportData.set
    /\ (report.set /\ report.title = "years") => tab1Data.set
    /\ (existingResults.set \/ (bestOptionTab4.set /\ ~tab4Results.set)) => tab4Data.set
    /\ (ret.fn = "calculateWithExistingAmount" /\ ~tab4Data.set) =>
           ret.alert /\ ~existingResults.set /\ ~bestOptionTab4.set

\* calculateWithExistingAmount was called with a valid amount before any
\* calculateTab4 and displayed nothing, while the reports of tab 1 and of
\* tab 2 were made after their prerequisites
C27_RefusedBeforeSip ==
    /\ ret.fn = "calculateWithExistingAmount" /\ ret.alert
    /\ ~tab4Data.set /\ ~existingResults.set
    /\ tab1Data.set /\ tab2ReportData.set /\ additionalResults.set /\ report.set

\* the inputs at which a handler stops at one of its validation alerts
Tab1Alerts(in) ==
    \/ isNaN(in[1]) \/ isNaN(in[2]) \/ Le(in[1], Zero) \/ Lt(in[2], Zero)
    \/ Le(Add(OrZero(in[3]), Div(OrZero(in[4]), C12)), Zero)
Tab2Alerts(in) ==
    \/ isNaN(in[1]) \/ isNaN(in[2]) \/ isNaN(in[3])
    \/ Le(in[1], Zero) \/ Lt(in[2], Zero) \/ Le(in[3], Zero)
    \/ (Le(in[3], Mul(in[1], MonthlyRate(in[2]))) /\ Gt(MonthlyRate(in[2]), Zero))
AdditionalAlerts(amount) ==
    ~tab2Data.set \/ isNaN(amount) \/ Lt(amount, Zero) \/ Eq(amount, Zero)
Tab4Alerts(in) ==
    \/ isNaN(in[1]) \/ isNaN(in[2]) \/ Le(in[1], Zero) \/ Lt(in[2], Zero)
    \/ Le(Add(OrZero(in[3]), Div(OrZero(in[4]), C12)), Zero)

\* C28: a call of calculateTab1, calculateTab2, calculateAdditionalPayment
\* or calculateTab4 that stops at a validation alert leaves tab1Data,
\* tab2Data, tab2ReportData and tab4Data as they were, and a call that
\* succeeds changes none of them but its own: a step keeps these records, or
\* it is not a step of the handler.
C28_StoredRecordsFrame ==
    [][/\ \A in \in PageTab1Inputs :
              \/ /\ UNCHANGED <<tab2Data, tab2ReportData, tab4Data>>
                 /\ Tab1Alerts(in) => UNCHANGED tab1Data
              \/ ~calculateTab1(in[1], in[2], in[3], in[4])
       /\ \A in \in PageTab2Inputs :
              \/ /\ UNCHANGED <<tab1Data, tab2ReportData, tab4Data>>
                 /\ Tab2Alerts(in) => UNCHANGED tab2Data
              \/ ~calculateTab2(in[1], in[2], in[3])
       /\ \A amount \in PageAdditionalInputs :
              \/ /\ UNCHANGED <<tab1Data, tab2Data, tab4Data>>
                 /\ AdditionalAlerts(amount) => UNCHANGED tab2ReportData
              \/ ~calculateAdditionalPayment(amount)
       /\ \A in \in PageTab4Inputs :
              \/ /\ UNCHANGED <<tab1Data, tab2Data, tab2ReportData>>
                 /\ Tab4Alerts(in) => UNCHANGED tab4Data
              \/ ~calculateTab4(in[1], in[2], in[3], in[4])
      ]_vars

\* calculateTab4 was last called with an amount it rejects, after each of
\* the four handlers had stored its record, and the record of tab 4 is not
\* of the rejected amount
C28_RejectedAfterAllStored ==
    /\ args.kind = "tab4" /\ ~Tab4Accepted(args)
    /\ tab1Data.set /\ tab2Data.set /\ tab2ReportData.set
    /\ tab4Data.set /\ tab4Data.sipAmount # args.sipAmount

(***************************************************************************)
(* Further properties of calculateRemainingLoan, checked under SpecFn      *)
(***************************************************************************)

\* C29: for principal > 0, monthlyRate >= 0 and emi > principal *
\* monthlyRate, with m the month count of calculateMonthsToClose below its
\* cap, calculateRemainingLoan is 0 after m months and > 0 after every
\* whole number of months before m; it is never negative.
C29_RemainingAgreesWithMonths ==
    ret.fn = "calculateRemainingLoan" =>
        /\ ~Lt(ret.value, Zero)
        /\ ( /\ Gt(args.principal, Zero) /\ Ge(args.monthlyRate, Zero)
             /\ Gt(args.emi, Mul(args.principal, args.monthlyRate))
             /\ Lt(ret.monthsToClose, FromInt(MaxMonths)) ) =>
               /\ Eq(ret.months, ret.monthsToClose) => Eq(ret.value, Zero)
               /\ Lt(ret.months, ret.monthsToClose) => Gt(ret.value, Zero)

(***************************************************************************)
(* Properties of the months of the SIP calculator                          *)
(***************************************************************************)

\* C30: a calculateTab4 that passes validation (SIP amount > 0, rate >= 0,
\* years + months/12 > 0) computes with a whole number of months
\* totalMonths >= 1: tab4Data.totalInvested is > 0 and every row of the
\* comparison has invested > 0.
C30_SipMonthsAtLeastOne ==
    Tab4Accepted(args) =>
        /\ tab4Data.set
        /\ isInteger(tab4Data.totalMonths) /\ Ge(tab4Data.totalMonths, One)
        /\ Gt(tab4Data.totalInvested, Zero)
        /\ \A i \in 1..Len(sipTable) : Gt(sipTable[i].invested, Zero)

====
